---- MODULE Spec2Model ----
(***************************************************************************)
(* A model of scripts/py_callscan.py, the static Python call scanner:      *)
(* the per-file ModuleScanner (two-pass symbol collection and call         *)
(* classification), the incremental cache of main() (fingerprints, reuse   *)
(* gate, rehydration, pruning, run statistics) and the two global passes.  *)
(*                                                                         *)
(* Text is modelled by what the code does with it: a Python str is a       *)
(* sequence of one-character strings, so that '.'.join, startswith,        *)
(* endswith, split and lstrip are computed character by character.         *)
(* The diagnostic lists and histograms (diag_*, *_hist, modules_meta) are  *)
(* write-only in the program and are left out.                             *)
(***************************************************************************)
EXTENDS Integers, Sequences, FiniteSets, TLC

(* ------------------------------ text -------------------------------- *)

\* Python's None. It is a sequence so that it compares with every str of the
\* model, and no str equals it: each element of a str is one character.
None == <<"<None>">>

\* Truthiness of an Optional[str]: None and '' are false.
Truthy(x) == x # None /\ x # <<>>

StartsWith(s, p) == Len(p) <= Len(s) /\ SubSeq(s, 1, Len(p)) = p

EndsWith(s, p) == Len(p) <= Len(s) /\ SubSeq(s, Len(s) - Len(p) + 1, Len(s)) = p

\* sep.join(parts)
RECURSIVE Join(_, _)
Join(sep, parts) ==
    IF parts = <<>> THEN <<>>
    ELSE IF Len(parts) = 1 THEN parts[1]
    ELSE parts[1] \o sep \o Join(sep, Tail(parts))

\* s.split(c) for a separator c of one character
RECURSIVE Split(_, _)
Split(s, c) ==
    LET at == {i \in 1..Len(s) : s[i] = c}
    IN IF at = {} THEN <<s>>
       ELSE LET i == CHOOSE j \in at : \A k \in at : j <= k
            IN <<SubSeq(s, 1, i - 1)>> \o Split(SubSeq(s, i + 1, Len(s)), c)

\* s.lstrip('.')
RECURSIVE LStripDots(_)
LStripDots(s) == IF s # <<>> /\ s[1] = "." THEN LStripDots(Tail(s)) ELSE s

\* '.' in s
HasDot(s) == \E i \in 1..Len(s) : s[i] = "."

Dot == <<".">>
Slash == <<"/">>

\* The elements of a list, as a set.
Range(seq) == {seq[i] : i \in 1..Len(seq)}

\* dict.get(key) of a dict modelled as a function
Get(d, key) == IF key \in DOMAIN d THEN d[key] ELSE None

\* d[key] = value
Put(d, key, value) == [k \in DOMAIN d \cup {key} |-> IF k = key THEN value ELSE d[k]]

EmptyDict == [k \in {} |-> None]

(* --------------------------- identifiers ---------------------------- *)

s_pkg == <<"p", "k", "g">>
s_util == <<"u", "t", "i", "l">>
s_worker == <<"w", "o", "r", "k", "e", "r">>
s_greet == <<"g", "r", "e", "e", "t">>
s_Worker == <<"W", "o", "r", "k", "e", "r">>
s_init == <<"_", "_", "i", "n", "i", "t", "_", "_">>
s_run == <<"r", "u", "n">>
s_str == <<"s", "t", "r">>
s_self == <<"s", "e", "l", "f">>
s_id == <<"i", "d">>
s_main == <<"m", "a", "i", "n">>
s_inner == <<"i", "n", "n", "e", "r">>
s_m == <<"m">>
s_u == <<"u">>
s_C == <<"C">>
s_D == <<"D">>
s_CD == <<"C", "D">>
s_a == <<"a">>
s_b == <<"b">>
s_k == <<"k">>
s_f == <<"f">>
s_g == <<"g">>
s_py == <<".", "p", "y">>
s_init_py == <<"/">> \o s_init \o s_py

(* ------------------------------- AST -------------------------------- *)
(* The nodes of Python's ast module that the scanner tells apart.  A      *)
(* statement that only holds an expression (Expr, Return) is Expr.        *)

FunctionDef(name, lineno, end_lineno, body) ==
    [node |-> "FunctionDef", name |-> name, lineno |-> lineno,
     end_lineno |-> end_lineno, body |-> body]

ClassDef(name, body) == [node |-> "ClassDef", name |-> name, body |-> body]

If(body) == [node |-> "If", body |-> body]

Expr(value) == [node |-> "Expr", value |-> value]

Pass == [node |-> "Pass"]

\* An assignment whose value holds no call.
Assign == [node |-> "Assign"]

\* A literal argument.
Constant == [node |-> "Constant"]

Call(func, args) == [node |-> "Call", func |-> func, args |-> args]

Name(id) == [node |-> "Name", id |-> id]

Attribute(value, attr) == [node |-> "Attribute", value |-> value, attr |-> attr]

\* import name [as asname]; asname is None when there is no "as"
alias(name, asname) == [name |-> name, asname |-> asname]

Import(names) == [node |-> "Import", names |-> names]

\* from <level dots><module> import names; module is None for "from . import x"
ImportFrom(module, names, level) ==
    [node |-> "ImportFrom", module |-> module, names |-> names, level |-> level]

Module(body) == [node |-> "Module", body |-> body]

IsFunctionDef(n) == n.node = "FunctionDef"

IsClassDef(n) == n.node = "ClassDef"

(* -------------------------- ModuleScanner --------------------------- *)

\* ModuleScanner.__init__
ModuleScanner(module) ==
    [module |-> module, stack |-> <<>>, functions |-> <<>>, edges |-> <<>>,
     unresolved |-> <<>>, name_index |-> EmptyDict, class_methods |-> EmptyDict,
     current_func |-> <<>>, imported_modules |-> EmptyDict,
     imported_names |-> EmptyDict]

FunctionInfo(qual, name, module, kind, lineno, endlineno) ==
    [id |-> qual, name |-> name, qualname |-> qual, module |-> module,
     kind |-> kind, lineno |-> lineno, endlineno |-> endlineno]

Edge(caller, callee, provenance) ==
    [caller |-> caller, callee |-> callee, kind |-> "call", provenance |-> provenance]

UnresolvedCall(caller, name) == [caller |-> caller, name |-> name]

\* '.'.join(p for p in [module] + stack + [name] if p)
_qual(sc, name) ==
    Join(Dot, SelectSeq(<<sc.module>> \o sc.stack \o <<name>>, LAMBDA p : p # <<>>))

\* name_index.setdefault(name, []).append(qual)
IndexAppend(index, name, qual) ==
    Put(index, name, (IF name \in DOMAIN index THEN index[name] ELSE <<>>) \o <<qual>>)

_add_function(sc, node, name, kind) ==
    LET qual == _qual(sc, name)
        info == FunctionInfo(qual, name, sc.module, kind, node.lineno, node.end_lineno)
    IN [sc EXCEPT !.functions = Append(@, info),
                  !.name_index = IndexAppend(@, name, qual)]

\* The class method table as visit_ClassDef leaves it before visiting the body:
\* the names of the FunctionDef statements directly in the class body.
PreRegisterMethods(sc, node) ==
    LET key == _qual(sc, <<>>)
        old == IF key \in DOMAIN sc.class_methods THEN sc.class_methods[key] ELSE {}
        direct == {node.body[i].name : i \in {j \in 1..Len(node.body) : IsFunctionDef(node.body[j])}}
    IN Put(sc.class_methods, key, old \cup direct)

\* _resolve_call: <<target_name, resolved_qual, provenance>>
SimpleNameMatch(sc, matches) ==
    LET prefix == sc.module \o Dot \o Join(Dot, SubSeq(sc.stack, 1, Len(sc.stack) - 1))
        hits == {i \in 1..Len(matches) : StartsWith(matches[i], prefix)}
    IN IF Len(matches) > 1 /\ sc.stack # <<>> /\ hits # {}
       THEN matches[CHOOSE i \in hits : \A j \in hits : i <= j]
       ELSE matches[1]

SelfMethod(sc, attr) ==
    IF Len(sc.stack) >= 2
    THEN LET class_qual == Join(Dot, <<sc.module>> \o SubSeq(sc.stack, 1, Len(sc.stack) - 1))
         IN IF class_qual \in DOMAIN sc.class_methods
               /\ attr \in sc.class_methods[class_qual]
            THEN class_qual \o Dot \o attr
            ELSE None
    ELSE None

_resolve_call(sc, node) ==
    LET func == node.func
    IN IF func.node = "Name"
       THEN IF func.id \in DOMAIN sc.name_index /\ sc.name_index[func.id] # <<>>
            THEN <<func.id, SimpleNameMatch(sc, sc.name_index[func.id]), None>>
            ELSE IF func.id \in DOMAIN sc.imported_names
                 THEN <<sc.imported_names[func.id], None, <<"provisional-fromimport">>>>
                 ELSE <<func.id, None, None>>
       ELSE IF func.node = "Attribute"
       THEN LET isName == func.value.node = "Name"
                viaSelf == IF isName /\ func.value.id = s_self
                           THEN SelfMethod(sc, func.attr) ELSE None
            IN IF viaSelf # None
               THEN <<func.attr, viaSelf, None>>
               ELSE IF isName /\ func.value.id \in DOMAIN sc.imported_modules
                    THEN <<sc.imported_modules[func.value.id] \o Dot \o func.attr,
                           None, <<"provisional-alias">>>>
                    ELSE <<func.attr, None, None>>
       ELSE <<None, None, None>>

\* The records visit_Call adds for one call node (before visiting its children).
RecordCall(sc, node) ==
    LET caller == sc.current_func[Len(sc.current_func)]
        r == _resolve_call(sc, node)
    IN IF Truthy(r[2])
       THEN [sc EXCEPT !.edges = Append(@, Edge(caller, r[2], "static-pyscan"))]
       ELSE IF Truthy(r[3]) /\ Truthy(r[1])
            THEN [sc EXCEPT !.edges = Append(@, Edge(caller, r[1], r[3][1]))]
            ELSE IF Truthy(r[1])
                 THEN [sc EXCEPT !.unresolved = Append(@, UnresolvedCall(caller, r[1]))]
                 ELSE sc

visit_Import(sc, node) ==
    LET RECURSIVE Each(_, _)
        Each(d, i) ==
            IF i > Len(node.names) THEN d
            ELSE LET al == node.names[i]
                     root == Split(al.name, ".")[1]
                 IN Each(IF Truthy(al.asname) THEN Put(d, al.asname, al.name)
                         ELSE Put(d, root, root), i + 1)
    IN [sc EXCEPT !.imported_modules = Each(@, 1)]

RECURSIVE Dots(_)
Dots(n) == IF n <= 0 THEN <<>> ELSE Dot \o Dots(n - 1)

visit_ImportFrom(sc, node) ==
    IF node.module = None THEN sc
    ELSE LET mod == IF node.level # 0 THEN Dots(node.level) \o node.module ELSE node.module
             RECURSIVE Each(_, _)
             Each(d, i) ==
                 IF i > Len(node.names) THEN d
                 ELSE LET al == node.names[i]
                          local == IF Truthy(al.asname) THEN al.asname ELSE al.name
                      IN Each(Put(d, local, mod \o Dot \o al.name), i + 1)
         IN [sc EXCEPT !.imported_names = Each(@, 1)]

\* The guard of visit_FunctionDef against a second record for a function the
\* first pass registered.
AlreadyRegistered(sc, node) ==
    \E i \in 1..Len(sc.functions) :
        /\ EndsWith(sc.functions[i].qualname, Dot \o node.name)
        /\ sc.functions[i].lineno = node.lineno

RECURSIVE visit(_, _, _)
RECURSIVE generic_visit(_, _, _)

\* generic_visit over a list of child nodes, in order; parent is the node type
\* of the node that holds them (add_parents).
generic_visit(sc, nodes, parent) ==
    IF nodes = <<>> THEN sc
    ELSE generic_visit(visit(sc, nodes[1], parent), Tail(nodes), parent)

visit_ClassDef(sc, node) ==
    LET pushed == [sc EXCEPT !.stack = Append(@, node.name)]
        seeded == [pushed EXCEPT !.class_methods = PreRegisterMethods(pushed, node)]
        done == generic_visit(seeded, node.body, "ClassDef")
    IN [done EXCEPT !.stack = SubSeq(@, 1, Len(@) - 1)]

visit_FunctionDef(sc, node, parent) ==
    LET kind == IF sc.stack # <<>> /\ parent = "ClassDef" THEN "method" ELSE "function"
        added == IF ~AlreadyRegistered(sc, node)
                 THEN _add_function(sc, node, node.name, kind) ELSE sc
        stack == Append(added.stack, node.name)
        current_qual == Join(Dot, <<sc.module>> \o stack)
        entered == [added EXCEPT !.stack = stack,
                                 !.current_func = Append(@, current_qual)]
        done == generic_visit(entered, node.body, "FunctionDef")
    IN [done EXCEPT !.stack = SubSeq(@, 1, Len(@) - 1),
                    !.current_func = SubSeq(@, 1, Len(@) - 1)]

visit_Call(sc, node) ==
    IF sc.current_func = <<>> THEN sc
    ELSE generic_visit(RecordCall(sc, node), <<node.func>> \o node.args, "Call")

visit(sc, node, parent) ==
    CASE node.node = "ClassDef" -> visit_ClassDef(sc, node)
      [] node.node = "FunctionDef" -> visit_FunctionDef(sc, node, parent)
      [] node.node = "Import" -> visit_Import(sc, node)
      [] node.node = "ImportFrom" -> visit_ImportFrom(sc, node)
      [] node.node = "Call" -> visit_Call(sc, node)
      [] node.node = "Attribute" -> generic_visit(sc, <<node.value>>, "Attribute")
      [] node.node = "If" -> generic_visit(sc, node.body, "If")
      [] node.node = "Expr" -> generic_visit(sc, <<node.value>>, "Expr")
      [] node.node = "Module" -> generic_visit(sc, node.body, "Module")
      [] OTHER -> sc

(* ------------------------------ files ------------------------------- *)

path_m == s_m \o s_py
path_util == s_pkg \o Slash \o s_util \o s_py
path_worker == s_pkg \o Slash \o s_worker \o s_py
path_hidden == s_py

\* The relative paths the walker may find.
Paths == {path_hidden, path_m, path_util, path_worker}

\* The orders in which os.walk may yield them: the files of the root before
\* the files of pkg, the files of one directory in the order in which the
\* file system lists them (iter_py_files does not sort them).
WalkOrders ==
    {top \o sub : top \in {<<path_hidden, path_m>>, <<path_m, path_hidden>>},
                  sub \in {<<path_util, path_worker>>, <<path_worker, path_util>>}}

\* module_name(root, file_path), from the path relative to the root
module_name(rel) ==
    LET stem == IF EndsWith(rel, s_init_py) THEN SubSeq(rel, 1, Len(rel) - 12)
                ELSE IF EndsWith(rel, s_py) THEN SubSeq(rel, 1, Len(rel) - 3)
                ELSE rel
        parts == SelectSeq(Split(stem, "/"), LAMBDA p : p # <<>> /\ p # Dot)
    IN Join(Dot, parts)

(* ----------------------------- sources ------------------------------ *)
(* The file contents of the model, each as the tree ast.parse returns.    *)

\* pkg/util.py:
\*   1 def greet(name):
\*   2     pass
util_v1 == Module(<<FunctionDef(s_greet, 1, 2, <<Pass>>)>>)

\* pkg/util.py, greet defined twice:
\*   1 def greet(name):
\*   2     pass
\*   3 def greet(name):
\*   4     str(name)
util_v2 ==
    Module(<<FunctionDef(s_greet, 1, 2, <<Pass>>),
             FunctionDef(s_greet, 3, 4, <<Expr(Call(Name(s_str), <<Name(s_a)>>))>>)>>)

\* examples/python/pkg/worker.py:
\*   1 from .util import greet
\*   3 class Worker:
\*   4     def __init__(self, id: int):
\*   5         self.id = id
\*   7     def run(self):
\*   8         return greet(str(self.id))
worker_v1 ==
    Module(<<ImportFrom(s_util, <<alias(s_greet, None)>>, 1),
             ClassDef(s_Worker,
                <<FunctionDef(s_init, 4, 5, <<Assign>>),
                  FunctionDef(s_run, 7, 8,
                     <<Expr(Call(Name(s_greet),
                                 <<Call(Name(s_str), <<Attribute(Name(s_self), s_id)>>)>>))>>)>>)>>)

\* m.py, the aliased module call:
\*   1 import pkg.util as u
\*   2 def main():
\*   3     u.greet('x')
m_v1 ==
    Module(<<Import(<<alias(s_pkg \o Dot \o s_util, s_u)>>),
             FunctionDef(s_main, 2, 3,
                <<Expr(Call(Attribute(Name(s_u), s_greet), <<Constant>>))>>)>>)

\* m.py, self-method calls:
\*    1 class C:
\*    2     def a(self):
\*    3         self.m()
\*    4         def inner():
\*    5             self.m()
\*    6         inner()
\*    7     def m(self):
\*    8         pass
\*    9     def b(self):
\*   10         self.k()
\*   11     if True:
\*   12         def k(self):
\*   13             pass
\*   14 class D:
\*   15     def m(self):
\*   16         pass
m_v2 ==
    Module(<<ClassDef(s_C,
                <<FunctionDef(s_a, 2, 6,
                     <<Expr(Call(Attribute(Name(s_self), s_m), <<>>)),
                       FunctionDef(s_inner, 4, 5,
                          <<Expr(Call(Attribute(Name(s_self), s_m), <<>>))>>),
                       Expr(Call(Name(s_inner), <<>>))>>),
                  FunctionDef(s_m, 7, 8, <<Pass>>),
                  FunctionDef(s_b, 9, 10,
                     <<Expr(Call(Attribute(Name(s_self), s_k), <<>>))>>),
                  If(<<FunctionDef(s_k, 12, 13, <<Pass>>)>>)>>),
             ClassDef(s_D, <<FunctionDef(s_m, 15, 16, <<Pass>>)>>)>>)

\* .py (a file whose name is only the extension):
\*   1 def f():
\*   2     g()
\*   3 def g():
\*   4     pass
hidden_v1 ==
    Module(<<FunctionDef(s_f, 1, 2, <<Expr(Call(Name(s_g), <<>>))>>),
             FunctionDef(s_g, 3, 4, <<Pass>>)>>)

\* m.py, a class named like the module pkg.util:
\*   1 class util:
\*   2     def greet(self):
\*   3         pass
m_v3 == Module(<<ClassDef(s_util, <<FunctionDef(s_greet, 2, 3, <<Pass>>)>>)>>)

\* m.py, one simple name declared in three classes:
\*    1 class CD:
\*    2     def f(self):
\*    3         pass
\*    4 class C:
\*    5     def f(self):
\*    6         pass
\*    7     def g(self):
\*    8         f()
\*    9 class D:
\*   10     def f(self):
\*   11         pass
\*   12     def g(self):
\*   13         f()
m_v4 ==
    Module(<<ClassDef(s_CD, <<FunctionDef(s_f, 2, 3, <<Pass>>)>>),
             ClassDef(s_C,
                <<FunctionDef(s_f, 5, 6, <<Pass>>),
                  FunctionDef(s_g, 7, 8, <<Expr(Call(Name(s_f), <<>>))>>)>>),
             ClassDef(s_D,
                <<FunctionDef(s_f, 10, 11, <<Pass>>),
                  FunctionDef(s_g, 12, 13, <<Expr(Call(Name(s_f), <<>>))>>)>>)>>)

\* What ast.parse raises on.
SyntaxError == [node |-> "SyntaxError"]

\* --max-file-size, its default
max_file_size == 1000000

\* The contents a file may have: its size in bytes and what ast.parse gives.
\* Source 7 does not parse; source 8 is larger than --max-file-size.
Source ==
    <<[size |-> 29, tree |-> util_v1],
      [size |-> 60, tree |-> util_v2],
      [size |-> 132, tree |-> worker_v1],
      [size |-> 50, tree |-> m_v1],
      [size |-> 250, tree |-> m_v2],
      [size |-> 35, tree |-> hidden_v1],
      [size |-> 8, tree |-> SyntaxError],
      [size |-> 1000001, tree |-> hidden_v1],
      [size |-> 46, tree |-> m_v3],
      [size |-> 176, tree |-> m_v4]>>

(* ----------------------------- scan_file ---------------------------- *)

\* The first pass of scan_file over one top-level statement.
FirstPass(sc, mod, stmt) ==
    IF IsFunctionDef(stmt) THEN _add_function(sc, stmt, stmt.name, "function")
    ELSE IF IsClassDef(stmt)
    THEN LET RECURSIVE Each(_, _)
             Each(index, i) ==
                 IF i > Len(stmt.body) THEN index
                 ELSE Each(IF IsFunctionDef(stmt.body[i])
                           THEN IndexAppend(index, stmt.body[i].name,
                                            Join(Dot, <<mod, stmt.name, stmt.body[i].name>>))
                           ELSE index, i + 1)
         IN [sc EXCEPT !.name_index = Each(@, 1)]
    ELSE sc

RECURSIVE FirstPassAll(_, _, _)
FirstPassAll(sc, mod, stmts) ==
    IF stmts = <<>> THEN sc
    ELSE FirstPassAll(FirstPass(sc, mod, stmts[1]), mod, Tail(stmts))

\* scan_file(root, path, max_file_size): <<scanner, reason>>.  file is the file
\* at the path: os.path.getsize and open raise on a file that cannot be read,
\* and every exception ends in the reason 'parse'.
scan_file(rel, file) ==
    IF ~file.ok THEN <<None, "parse">>
    ELSE IF Source[file.src].size > max_file_size THEN <<None, "size">>
    ELSE IF Source[file.src].tree = SyntaxError THEN <<None, "parse">>
    ELSE LET mod == module_name(rel)
             tree == Source[file.src].tree
         IN <<visit(FirstPassAll(ModuleScanner(mod), mod, tree.body), tree, "None"), "None">>

(* ------------------------- files and caches ------------------------- *)

\* A file of the tree: its content, its modification time in seconds, whether
\* os.stat and open succeed on it when main() fingerprints and scans it (ok;
\* they fail on a link whose target is gone), and whether os.stat still
\* succeeds when process() takes the fingerprint again after the scan (ok2).
\* No file at a path is Absent.
File(src, mtime) == [src |-> src, mtime |-> mtime, ok |-> TRUE, ok2 |-> TRUE]

Absent == File(0, 0)

\* paths = list(iter_py_files(root, skip_dir)), as paths relative to the root
WalkedPaths(tree, walk) == SelectSeq(walk, LAMBDA rel : tree[rel] # Absent)

\* The fingerprints of a file that cannot be read: '0:0' and '0'.
StatFailure == <<"0:0", 0, 0>>

Sha1Failure == <<"0", 0, 0>>

\* f"{int(st.st_mtime)}:{st.st_size}", '0:0' on OSError
StatFingerprint(file) ==
    IF file.ok THEN <<"mtime:size", file.mtime, Source[file.src].size>> ELSE StatFailure

\* hashlib.sha1(content).hexdigest(): one digest per content; '0' on failure
Sha1Fingerprint(file) == IF file.ok THEN <<"hexdigest", file.src, 0>> ELSE Sha1Failure

\* h2 of process(): the stat fingerprint taken again after the scan
StatAfterScan(file) ==
    IF file.ok2 THEN <<"mtime:size", file.mtime, Source[file.src].size>> ELSE StatFailure

\* compute_hash(p) under --hash-mode
compute_hash(hash_mode, file) ==
    IF hash_mode = "stat" THEN StatFingerprint(file) ELSE Sha1Fingerprint(file)

\* A cache file as main() reads it: prev.get('hash_mode') ("None" when the key
\* is missing) and prev.get('cache_units').
CacheFile(hash_mode, cache_units) == [hash_mode |-> hash_mode, cache_units |-> cache_units]

\* No cache file at --cache-file: prev_hash_mode and prev_cache_units keep
\* their initial values.
NoFile == CacheFile("None", EmptyDict)

Unit(hash, functions, edges, unresolved_calls) ==
    [hash |-> hash, functions |-> functions, edges |-> edges,
     unresolved_calls |-> unresolved_calls]

FunctionInfoFields == {"id", "name", "qualname", "module", "kind", "lineno", "endlineno"}

\* FunctionInfo(**f) raises TypeError unless f has exactly the dataclass fields.
HydratesFunction(f) == DOMAIN f = FunctionInfoFields

\* Edge(**e): caller and callee are required, kind and provenance have defaults.
HydratesEdge(e) ==
    {"caller", "callee"} \subseteq DOMAIN e
    /\ DOMAIN e \subseteq {"caller", "callee", "kind", "provenance"}

EdgeFromDict(e) ==
    [caller |-> e.caller, callee |-> e.callee,
     kind |-> IF "kind" \in DOMAIN e THEN e.kind ELSE "call",
     provenance |-> IF "provenance" \in DOMAIN e THEN e.provenance ELSE "static-pyscan"]

HydratesUnresolved(u) == DOMAIN u = {"caller", "name"}

(* ------------------------------- main ------------------------------- *)

\* The accumulators of main() before the reuse loop.
MainStart ==
    [functions |-> <<>>, edges |-> <<>>, unresolved |-> <<>>,
     imported_candidates |-> <<>>, files_processed |-> 0,
     skipped_size |-> 0, skipped_parse |-> 0,
     file_hashes |-> EmptyDict, cache_units |-> EmptyDict,
     reused_files |-> 0, reused_functions |-> 0, reused_edges |-> 0,
     reused_unresolved |-> 0, to_parse |-> <<>>, stopped |-> FALSE]

\* The reuse condition of the loop over paths.
ReuseGate(prev, hash_mode, rel, h) ==
    /\ rel \in DOMAIN prev.cache_units
    /\ prev.cache_units[rel].hash = h
    /\ \/ prev.hash_mode \in {"None", hash_mode}
       \/ (prev.hash_mode = "None" /\ hash_mode = "stat")

\* The branch of the loop that reuses the unit of rel.
ReuseUnit(acc, rel, h, unit) ==
    [acc EXCEPT
        !.file_hashes = Put(@, rel, h),
        !.cache_units = Put(@, rel, unit),
        !.reused_files = @ + 1,
        !.reused_functions = @ + Len(unit.functions),
        !.reused_edges = @ + Len(unit.edges),
        !.reused_unresolved = @ + Len(unit.unresolved_calls),
        !.functions = @ \o SelectSeq(unit.functions, HydratesFunction),
        !.edges = @ \o [i \in 1..Len(SelectSeq(unit.edges, HydratesEdge)) |->
                          EdgeFromDict(SelectSeq(unit.edges, HydratesEdge)[i])],
        !.unresolved = @ \o SelectSeq(unit.unresolved_calls, HydratesUnresolved)]

\* The loop over paths that decides reuse.
RECURSIVE ReuseLoop(_, _, _, _, _)
ReuseLoop(acc, tree, prev, hash_mode, paths) ==
    IF paths = <<>> THEN acc
    ELSE LET rel == paths[1]
             h == compute_hash(hash_mode, tree[rel])
             next == IF ReuseGate(prev, hash_mode, rel, h)
                     THEN ReuseUnit(acc, rel, h, prev.cache_units[rel])
                     ELSE [acc EXCEPT !.to_parse = Append(@, rel)]
         IN ReuseLoop(next, tree, prev, hash_mode, Tail(paths))

\* What process(path) returns for the result of scan_file and the stat
\* fingerprint h2 it takes after the scan: <<path, reason, payload>>.
ProcessResult(rel, scanned, h2) ==
    IF scanned[2] # "None" THEN <<rel, scanned[2], None>>
    ELSE <<rel, "None", <<scanned[1], h2>>>>

\* process(path)
process(tree, rel) ==
    ProcessResult(rel, scan_file(rel, tree[rel]), StatAfterScan(tree[rel]))

\* imported_candidates of one scanner
ImportedCandidates(scanner) ==
    LET keep == SelectSeq(scanner.unresolved,
                    LAMBDA u : HasDot(u.name) /\ ~StartsWith(u.name, scanner.module \o Dot))
    IN [i \in 1..Len(keep) |-> <<keep[i].caller, keep[i].name>>]

\* One turn of the loop over results.
Aggregate(acc, result, edge_cap) ==
    LET rel == result[1]
        payload == result[3]
    IN IF result[2] # "None"
       THEN IF result[2] = "size" THEN [acc EXCEPT !.skipped_size = @ + 1]
            ELSE [acc EXCEPT !.skipped_parse = @ + 1]
       ELSE LET scanner == payload[1]
                h == payload[2]
                edges == acc.edges \o scanner.edges
            IN [acc EXCEPT
                   !.file_hashes = Put(@, rel, h),
                   !.files_processed = @ + 1,
                   !.functions = @ \o scanner.functions,
                   !.edges = edges,
                   !.unresolved = @ \o scanner.unresolved,
                   !.cache_units = Put(@, rel, Unit(h, scanner.functions, scanner.edges,
                                                    scanner.unresolved)),
                   !.imported_candidates = @ \o ImportedCandidates(scanner),
                   !.stopped = edge_cap # 0 /\ Len(edges) >= edge_cap]

\* A loop over results that ends at the first skipped file.
RECURSIVE AggregateLoopEndsAtSkip(_, _, _)
AggregateLoopEndsAtSkip(acc, results, edge_cap) ==
    IF results = <<>> \/ acc.stopped THEN acc
    ELSE IF results[1][2] # "None" THEN Aggregate(acc, results[1], edge_cap)
    ELSE AggregateLoopEndsAtSkip(Aggregate(acc, results[1], edge_cap), Tail(results),
                                 edge_cap)

RECURSIVE AggregateLoop(_, _, _)
AggregateLoop(acc, results, edge_cap) ==
    IF results = <<>> \/ acc.stopped THEN acc
    ELSE AggregateLoop(Aggregate(acc, results[1], edge_cap), Tail(results), edge_cap)

\* The iteration order of a Python set of str is fixed within one process and
\* differs between processes (str hashes are salted).  It is modelled by a
\* list of all the strings the set may hold: the set iterates in that order.
InOrder(S, set_order) == SelectSeq(set_order, LAMBDA e : e \in S)

\* What the loop over as_completed appends for one task: fut.result(), or
\* (path, 'parse', None) when the task raised.
TaskResult(tree, rel, raised) ==
    IF rel \in raised THEN <<rel, "parse", None>> ELSE process(tree, rel)

\* results: with --workers 1 process(p) for the paths to parse in their order,
\* with a pool the results of the tasks in the order they complete.
Results(tree, to_parse, opts) ==
    IF opts.workers > 1
    THEN [i \in 1..Len(to_parse) |->
             TaskResult(tree, InOrder(Range(to_parse), opts.completion)[i], opts.raised)]
    ELSE [i \in 1..Len(to_parse) |-> process(tree, to_parse[i])]

\* The block under "if not to_parse" and "if to_parse".
ScanPhase(acc, tree, opts) ==
    IF acc.to_parse = <<>> THEN [acc EXCEPT !.files_processed = acc.reused_files]
    ELSE AggregateLoop(acc, Results(tree, acc.to_parse, opts), opts.edge_cap)

\* cache_pruned
PrunedCount(prev, paths) == Cardinality(DOMAIN prev.cache_units \ Range(paths))

\* A carry-over that lacks the test "rel in file_hashes": it keeps every unit
\* of the previous cache, the units of vanished files too.
CarryOverAll(acc, prev) ==
    [rel \in DOMAIN acc.cache_units \cup DOMAIN prev.cache_units |->
        IF rel \in DOMAIN acc.cache_units THEN acc.cache_units[rel]
        ELSE prev.cache_units[rel]]

\* cache_units after "Ensure reused units are in cache units"
CarryOver(acc, prev) ==
    [rel \in DOMAIN acc.cache_units
            \cup {r \in DOMAIN prev.cache_units : r \in DOMAIN acc.file_hashes} |->
        IF rel \in DOMAIN acc.cache_units THEN acc.cache_units[rel]
        ELSE prev.cache_units[rel]]

(* --------------------------- global passes -------------------------- *)

\* The names of dir(builtins) among the names the sources call.
builtin_names == {s_str}

\* Pass A: the edges appended for the imported candidates.
PassA(imported_candidates, func_set) ==
    LET hits == SelectSeq(imported_candidates, LAMBDA c : c[2] \in func_set)
    IN [i \in 1..Len(hits) |-> Edge(hits[i][1], hits[i][2], "static-cross-import")]

\* top_modules
TopModules(functions) ==
    {Split(functions[i].module, ".")[1] : i \in {j \in 1..Len(functions) : functions[j].module # <<>>}}

\* The candidates Pass B tries for a name, in order; top_modules is the set in
\* its iteration order.
Candidates(name, top_modules) ==
    IF name = <<>> THEN <<>>
    ELSE <<name>> \o (IF HasDot(name)
                      THEN [i \in 1..Len(top_modules) |-> top_modules[i] \o Dot \o name]
                      ELSE <<>>)

\* What one candidate matches: itself when declared, else its only suffix match.
CandidateMatch(cand, func_set) ==
    IF cand \in func_set THEN cand
    ELSE LET suffix_matches == {fq \in func_set : EndsWith(fq, Dot \o cand)}
         IN IF Cardinality(suffix_matches) = 1
            THEN CHOOSE fq \in suffix_matches : TRUE
            ELSE None

\* matched: the match of the first candidate that has one.
RECURSIVE Matched(_, _)
Matched(candidates, func_set) ==
    IF candidates = <<>> THEN None
    ELSE IF CandidateMatch(candidates[1], func_set) # None
         THEN CandidateMatch(candidates[1], func_set)
         ELSE Matched(Tail(candidates), func_set)

\* A Pass B that appends the edge of a matched entry and keeps the entry in
\* the unresolved list as well.
RECURSIVE PassBKeepsMatched(_, _, _, _, _)
PassBKeepsMatched(pass, unresolved, func_set, top_modules, ignore_builtin) ==
    IF unresolved = <<>> THEN pass
    ELSE LET u == unresolved[1]
             name == LStripDots(u.name)
             matched == Matched(Candidates(name, top_modules), func_set)
             next == IF ignore_builtin /\ name \in builtin_names
                     THEN [pass EXCEPT !.builtin_ignored = @ + 1]
                     ELSE IF Truthy(matched)
                     THEN [pass EXCEPT !.edges = Append(@, Edge(u.caller, matched,
                                                              "static-cross-module")),
                                       !.remaining_unresolved = Append(@, u)]
                     ELSE [pass EXCEPT !.remaining_unresolved = Append(@, u)]
         IN PassBKeepsMatched(next, Tail(unresolved), func_set, top_modules, ignore_builtin)

\* Pass B over the unresolved list: [edges appended, remaining_unresolved].
RECURSIVE PassB(_, _, _, _, _)
PassB(pass, unresolved, func_set, top_modules, ignore_builtin) ==
    IF unresolved = <<>> THEN pass
    ELSE LET u == unresolved[1]
             name == LStripDots(u.name)
             matched == Matched(Candidates(name, top_modules), func_set)
             next == IF ignore_builtin /\ name \in builtin_names
                     THEN [pass EXCEPT !.builtin_ignored = @ + 1]
                     ELSE IF Truthy(matched)
                     THEN [pass EXCEPT !.edges = Append(@, Edge(u.caller, matched,
                                                              "static-cross-module"))]
                     ELSE [pass EXCEPT !.remaining_unresolved = Append(@, u)]
         IN PassB(next, Tail(unresolved), func_set, top_modules, ignore_builtin)

PassBStart == [edges |-> <<>>, remaining_unresolved |-> <<>>, builtin_ignored |-> 0]

\* func_set
FuncSet(functions) == {functions[i].qualname : i \in 1..Len(functions)}

\* The report main() builds from its accumulators after the scan phase and
\* from what the two passes return.  to_parse, unresolved_in and
\* imported_candidates are not part of the report: they are the lists to_parse,
\* unresolved (as Pass B finds it) and imported_candidates of main().
Report(acc, prev, paths, opts, a, b) ==
    [files |-> acc.files_processed,
     skipped |-> [size |-> acc.skipped_size, parse |-> acc.skipped_parse],
     functions |-> acc.functions,
     edges |-> acc.edges \o a \o b.edges,
     unresolved_calls |-> b.remaining_unresolved,
     file_hashes |-> acc.file_hashes,
     cache_units |-> CarryOver(acc, prev),
     cache |-> [reused_files |-> acc.reused_files,
                reused_functions |-> acc.reused_functions,
                reused_edges |-> acc.reused_edges,
                reused_unresolved |-> acc.reused_unresolved,
                parsed_files |-> acc.files_processed - acc.reused_files,
                pruned_files |-> PrunedCount(prev, paths)],
     hash_mode |-> opts.hash_mode,
     resolved_external |-> Len(a),
     resolved_cross_module |-> Len(b.edges),
     ignored_builtins |-> b.builtin_ignored,
     to_parse |-> acc.to_parse,
     unresolved_in |-> acc.unresolved,
     imported_candidates |-> acc.imported_candidates]

\* The second half of main(): the global passes over the accumulators.
GlobalPasses(acc, prev, paths, opts) ==
    Report(acc, prev, paths, opts,
           PassA(acc.imported_candidates, FuncSet(acc.functions)),
           PassB(PassBStart, acc.unresolved, FuncSet(acc.functions),
                 InOrder(TopModules(acc.functions), opts.set_order), opts.ignore_builtin))

\* main(): the report of one run with --cache-file, which is also the cache
\* file it writes.  opts: hash_mode (--hash-mode), edge_cap (CRV_PY_EDGE_CAP,
\* 0 when unset), ignore_builtin (--ignore-builtin-unresolved), walk, the
\* order in which os.walk yields the files, set_order, the iteration order
\* of sets of str in the process, workers (--workers)
\* and, for a pool, completion, the order in which the tasks complete, and
\* raised, the paths whose task raises.
main(tree, prev, opts) ==
    GlobalPasses(ScanPhase(ReuseLoop(MainStart, tree, prev, opts.hash_mode,
                                     WalkedPaths(tree, opts.walk)),
                           tree, opts),
                 prev, WalkedPaths(tree, opts.walk), opts)

(* --------------------------- state machine -------------------------- *)
(* The scanner is run again and again on a tree that is edited between    *)
(* the runs, each run reading the cache file the run before it wrote.    *)

VARIABLES
    tree,      \* the files under the root, by relative path
    clock,     \* the time, in seconds
    cache,     \* the file at --cache-file
    written,   \* the tree the cache file was written for; NoTree when no run wrote it
    env,       \* CRV_PY_EDGE_CAP, --ignore-builtin-unresolved and the order in which
               \* the file system lists files, the same in every run
    last,      \* the last run: its options, tree, prior cache and report
    nruns,     \* the runs so far
    nedits     \* the edits so far

vars == <<tree, clock, cache, written, env, last, nruns, nedits>>

MaxRuns == 2
MaxEdits == 1

\* The contents each path may have.
Versions ==
    (path_hidden :> {6}) @@ (path_m :> {4, 5, 7, 9, 10}) @@ (path_util :> {1, 2})
        @@ (path_worker :> {3, 8})

NoTree == [rel \in Paths |-> Absent]

TreeOf(hidden, m, util, worker) ==
    (path_hidden :> hidden) @@ (path_m :> m) @@ (path_util :> util)
        @@ (path_worker :> worker)

InitTrees ==
    {TreeOf(Absent, File(4, 1), File(1, 1), File(3, 1)),
     TreeOf(Absent, File(5, 1), File(2, 1), Absent),
     TreeOf(File(6, 1), File(7, 1), File(1, 1), File(8, 1)),
     TreeOf(Absent, File(9, 1), File(1, 1), File(3, 1))}

EdgeCaps == {0, 1}

\* The orders in which a set of top-level module names may iterate.
SetOrders == {<<s_m, s_pkg>>, <<s_pkg, s_m>>}

DefaultOpts ==
    [hash_mode |-> "stat", edge_cap |-> 0, ignore_builtin |-> FALSE,
     walk |-> <<path_hidden, path_m, path_util, path_worker>>,
     set_order |-> <<s_m, s_pkg>>, workers |-> 1, completion |-> <<>>, raised |-> {}]

\* The unresolved list of a unit as a version of the scanner without
\* provisional edges recorded it: a call of a from-imported name is an
\* unresolved entry under the dotted name the import gives it.
DottedUnresolved(unit) ==
    [i \in 1..Len(SelectSeq(unit.edges, LAMBDA e : e.provenance = "provisional-fromimport")) |->
        UnresolvedCall(
            SelectSeq(unit.edges, LAMBDA e : e.provenance = "provisional-fromimport")[i].caller,
            SelectSeq(unit.edges, LAMBDA e : e.provenance = "provisional-fromimport")[i].callee)]
        \o unit.unresolved_calls

\* A cache file another version of the scanner wrote: the units of a report
\* of this tree, without hash_mode and with stat fingerprints ("legacy"),
\* without hash_mode and with content digests ("digest"), with one more key
\* in every function record ("drift"), or without hash_mode and with the
\* from-import calls among the unresolved entries ("dotted").
ForeignUnits(t, units, kind) ==
    [rel \in DOMAIN units |->
        Unit(IF kind = "digest" THEN Sha1Fingerprint(t[rel]) ELSE units[rel].hash,
             IF kind = "drift"
             THEN [i \in 1..Len(units[rel].functions) |->
                     [k \in FunctionInfoFields \cup {"doc"} |->
                         IF k = "doc" THEN <<>> ELSE units[rel].functions[i][k]]]
             ELSE units[rel].functions,
             IF kind = "dotted"
             THEN SelectSeq(units[rel].edges, LAMBDA e : e.provenance # "provisional-fromimport")
             ELSE units[rel].edges,
             IF kind = "dotted" THEN DottedUnresolved(units[rel])
             ELSE units[rel].unresolved_calls)]

ForeignCache(t, kind) ==
    CacheFile(IF kind = "drift" THEN "stat" ELSE "None",
              ForeignUnits(t, main(t, NoFile, DefaultOpts).cache_units, kind))

NoRun == [n |-> 0]

Init ==
    /\ tree \in InitTrees
    /\ clock = 1
    /\ \/ /\ cache = NoFile
          /\ env \in [edge_cap : EdgeCaps, ignore_builtin : BOOLEAN, foreign : {FALSE},
                       walk : WalkOrders]
       \/ /\ cache \in {ForeignCache(tree, kind) : kind \in {"legacy", "digest", "drift", "dotted"}}
          /\ env \in [edge_cap : {0}, ignore_builtin : {FALSE}, foreign : {TRUE},
                       walk : WalkOrders]
    /\ written = NoTree
    /\ last = NoRun
    /\ nruns = 0
    /\ nedits = 0

Opts(hash_mode, set_order) ==
    [hash_mode |-> hash_mode, edge_cap |-> env.edge_cap,
     ignore_builtin |-> env.ignore_builtin, walk |-> env.walk, set_order |-> set_order,
     workers |-> 1, completion |-> <<>>, raised |-> {}]

\* The tree as a run observes it when the file at lost stops being readable
\* after the run has scanned it (no file when lost is None), and the tree
\* that is left.
Observed(t, lost) == IF lost = None THEN t ELSE [t EXCEPT ![lost].ok2 = FALSE]

Unreadable(t, rel) == [t EXCEPT ![rel].ok = FALSE, ![rel].ok2 = FALSE]

\* One run of main() with --cache-file, possibly while a file is lost.
Run(hash_mode, lost, set_order) ==
    /\ nruns < MaxRuns
    /\ lost # None => nedits < MaxEdits /\ tree[lost] # Absent /\ tree[lost].ok
    /\ \E out \in {main(Observed(tree, lost), cache, Opts(hash_mode, set_order))} :
          /\ last' = [n |-> nruns + 1, opts |-> Opts(hash_mode, set_order),
                      tree |-> Observed(tree, lost),
                      prev |-> cache, written |-> written, out |-> out]
          /\ cache' = CacheFile(out.hash_mode, out.cache_units)
    /\ tree' = IF lost = None THEN tree ELSE Unreadable(tree, lost)
    /\ written' = tree'
    /\ nruns' = nruns + 1
    /\ nedits' = IF lost = None THEN nedits ELSE nedits + 1
    /\ UNCHANGED <<clock, env>>

\* A file is written (created, rewritten or touched) a second or more after
\* the last write.
WriteFile(rel, src) ==
    /\ nedits < MaxEdits
    /\ nruns < MaxRuns
    /\ clock' = clock + 1
    /\ tree' = [tree EXCEPT ![rel] = File(src, clock + 1)]
    /\ nedits' = nedits + 1
    /\ UNCHANGED <<cache, written, env, last, nruns>>

DeleteFile(rel) ==
    /\ nedits < MaxEdits
    /\ nruns < MaxRuns
    /\ tree[rel] # Absent
    /\ tree' = [tree EXCEPT ![rel] = Absent]
    /\ nedits' = nedits + 1
    /\ UNCHANGED <<clock, cache, written, env, last, nruns>>

\* A file stops being readable between two runs.
BreakFile(rel) ==
    /\ nedits < MaxEdits
    /\ nruns < MaxRuns
    /\ tree[rel] # Absent
    /\ tree[rel].ok
    /\ tree' = Unreadable(tree, rel)
    /\ nedits' = nedits + 1
    /\ UNCHANGED <<clock, cache, written, env, last, nruns>>

Next ==
    \/ \E hash_mode \in {"stat", "sha1"} : \E lost \in {None} \cup Paths :
          \E set_order \in SetOrders : Run(hash_mode, lost, set_order)
    \/ \E rel \in Paths : \E src \in Versions[rel] : WriteFile(rel, src)
    \/ \E rel \in Paths : DeleteFile(rel)
    \/ \E rel \in Paths : BreakFile(rel)

Spec == Init /\ [][Next]_vars

(* The scanner run once with --workers 2, on a tree that may have been    *)
(* edited since the cache file was written.                               *)

MaxRaised == 1

\* The orders in which the tasks of a pool may complete, as orders of the
\* files of the tree t.
Completions(t) ==
    {c \in [1..Len(WalkedPaths(t, DefaultOpts.walk)) -> Paths] :
        Range(c) = Range(WalkedPaths(t, DefaultOpts.walk))}

PoolOpts(hash_mode, set_order, completion, raised) ==
    [Opts(hash_mode, set_order) EXCEPT
        !.workers = 2, !.completion = completion, !.raised = raised]

\* One run of main() with --cache-file and --workers 2.
PoolRun(hash_mode, set_order, completion, raised) ==
    /\ last = NoRun
    /\ \E out \in {main(tree, cache, PoolOpts(hash_mode, set_order, completion, raised))} :
          /\ last' = [n |-> nruns + 1,
                      opts |-> PoolOpts(hash_mode, set_order, completion, raised),
                      tree |-> tree, prev |-> cache, written |-> written, out |-> out]
          /\ cache' = CacheFile(out.hash_mode, out.cache_units)
    /\ written' = tree
    /\ nruns' = nruns + 1
    /\ UNCHANGED <<tree, clock, env, nedits>>

PoolNext ==
    \/ last = NoRun /\ \E hash_mode \in {"stat", "sha1"} : \E set_order \in SetOrders :
          \E completion \in Completions(tree) :
             \E raised \in {R \in SUBSET Range(completion) : Cardinality(R) <= MaxRaised} :
                PoolRun(hash_mode, set_order, completion, raised)
    \/ last = NoRun /\ \E rel \in Paths : \E src \in Versions[rel] : WriteFile(rel, src)
    \/ last = NoRun /\ \E rel \in Paths : DeleteFile(rel)
    \/ last = NoRun /\ \E rel \in Paths : BreakFile(rel)

PoolSpec == Init /\ [][PoolNext]_vars

(* ----------------------------- properties --------------------------- *)
(* The properties are stated about the last run: its options, the tree it *)
(* read, the cache file it read and its report.                           *)

Ran == last.n > 0

\* The files that contributed records to the last run, reused or parsed.
Contributing == DOMAIN last.out.file_hashes

\* The files the last run reused from the cache.
Reused == Contributing \ Range(last.out.to_parse)

Qualnames == FuncSet(last.out.functions)

HasEdge(caller, callee) ==
    \E i \in 1..Len(last.out.edges) :
        last.out.edges[i].caller = caller /\ last.out.edges[i].callee = callee

\* The qualified name of a definition, as the specification defines it: the
\* module, the enclosing scopes and the name, joined by dots.
Qualify(scope, name) == IF scope = <<>> THEN name ELSE scope \o Dot \o name

\* The functions lexically defined in a class body: its def statements, those
\* under a conditional included.
RECURSIVE LexicallyDefined(_)
LexicallyDefined(body) ==
    IF body = <<>> THEN {}
    ELSE (IF IsFunctionDef(body[1]) THEN {body[1].name}
          ELSE IF body[1].node = "If" THEN LexicallyDefined(body[1].body)
          ELSE {})
         \cup LexicallyDefined(Tail(body))

\* The children of a node, as ast.iter_child_nodes yields them.
Children(node) ==
    CASE node.node \in {"ClassDef", "FunctionDef", "If", "Module"} -> node.body
      [] node.node = "Call" -> <<node.func>> \o node.args
      [] node.node \in {"Expr", "Attribute"} -> <<node.value>>
      [] OTHER -> <<>>

\* The calls of a source tree that stand inside a function, each with the
\* qualified name of that function, the qualified name of the innermost
\* enclosing class (None outside a class) and the functions lexically defined
\* in that class.
RECURSIVE CallSites(_, _, _, _)
CallSites(node, scope, class, fn) ==
    LET here == IF node.node = "Call" /\ fn # None
                THEN {[caller |-> fn, func |-> node.func, class |-> class.qual,
                       defined |-> class.defined]}
                ELSE {}
        inner == IF IsClassDef(node) \/ IsFunctionDef(node)
                 THEN Qualify(scope, node.name) ELSE scope
        class_in == IF IsClassDef(node)
                    THEN [qual |-> inner, defined |-> LexicallyDefined(node.body)]
                    ELSE class
        fn_in == IF IsFunctionDef(node) THEN inner ELSE fn
    IN here \cup UNION {CallSites(Children(node)[i], inner, class_in, fn_in) :
                           i \in 1..Len(Children(node))}

\* The call sites of the file at rel in the tree the last run read.
SitesOf(rel) ==
    CallSites(Source[last.tree[rel].src].tree, module_name(rel),
              [qual |-> None, defined |-> {}], None)

IsSelfCall(site) ==
    /\ site.class # None
    /\ site.func.node = "Attribute"
    /\ site.func.value.node = "Name"
    /\ site.func.value.id = s_self

\* What the relative import "from <level dots><module> import name" denotes in
\* the module mod of a plain file: the package of mod, level - 1 packages up.
RelativeTarget(mod, level, from_module, name) ==
    Join(Dot, SubSeq(Split(mod, "."), 1, Len(Split(mod, ".")) - level)
                 \o <<from_module, name>>)

\* The names the relative from-imports of the file at rel bind, each with the
\* qualified name it denotes.
RelativeImports(rel) ==
    LET body == Source[last.tree[rel].src].tree.body
        stmts == {i \in 1..Len(body) : body[i].node = "ImportFrom"}
    IN UNION {{[local |-> IF Truthy(body[i].names[k].asname)
                          THEN body[i].names[k].asname ELSE body[i].names[k].name,
                target |-> RelativeTarget(module_name(rel), body[i].level,
                                          body[i].module, body[i].names[k].name)] :
                  k \in 1..Len(body[i].names)} :
              i \in {j \in stmts : body[j].level > 0 /\ body[j].module # None}}

\* The units of the prior cache whose file the walk no longer finds.
Vanished == {rel \in DOMAIN last.prev.cache_units : last.tree[rel] = Absent}

\* A record whose caller (or a function record whose module) belongs to the
\* module of the file at rel.
FromModule(qual, rel) ==
    qual = module_name(rel) \/ StartsWith(qual, module_name(rel) \o Dot)

\* C1 (caller validity): in the report of every run, the caller of every edge
\* is the qualname of some function record of the same report.
C1_CallerValidity ==
    Ran => \A i \in 1..Len(last.out.edges) : last.out.edges[i].caller \in Qualnames

\* C2 (qualname uniqueness): in the report of every run, no two function
\* records have the same qualname.
C2_QualnameUniqueness ==
    Ran => \A i, j \in 1..Len(last.out.functions) :
              last.out.functions[i].qualname = last.out.functions[j].qualname => i = j

\* C3 (cache equivalence): a run that reads a cache file earlier runs of the
\* scanner wrote, fully or partially valid for the tree, reports the same sets
\* of functions, edges and unresolved calls as a cold run on the same tree.
C3_CacheEquivalence ==
    (Ran /\ ~env.foreign /\ last.prev # NoFile) =>
        LET cold == main(last.tree, NoFile, last.opts)
        IN /\ Range(last.out.functions) = Range(cold.functions)
           /\ Range(last.out.edges) = Range(cold.edges)
           /\ Range(last.out.unresolved_calls) = Range(cold.unresolved_calls)

\* C4 (incremental reuse): a run in stat mode on a tree untouched since the
\* run, also in stat mode, that wrote the cache file parses no file and reuses
\* every file: parsed_files = 0 and reused_files = files.
C4_IncrementalReuse ==
    (Ran /\ ~env.foreign /\ last.prev # NoFile /\ last.written = last.tree
         /\ last.prev.hash_mode = "stat" /\ last.opts.hash_mode = "stat"
         /\ last.opts.edge_cap = 0) =>
        /\ last.out.cache.parsed_files = 0
        /\ last.out.cache.reused_files = last.out.files

\* C5 (run accounting): in every run, parsed_files is the number of files
\* freshly parsed and aggregated, and files = reused_files + parsed_files.
C5_RunAccounting ==
    Ran => /\ last.out.cache.parsed_files = Cardinality(Contributing \ Reused)
           /\ last.out.cache.parsed_files >= 0
           /\ last.out.files = last.out.cache.reused_files + last.out.cache.parsed_files

\* C6 (reuse policy): a file is reused only when the fingerprint its unit
\* stores equals the fingerprint computed in this run and the hash_mode of the
\* cache file is the mode of the run, or is missing while the run is in stat
\* mode.
C6_ReusePolicy ==
    Ran => \A rel \in Reused :
              /\ rel \in DOMAIN last.prev.cache_units
              /\ last.prev.cache_units[rel].hash
                    = compute_hash(last.opts.hash_mode, last.tree[rel])
              /\ \/ last.prev.hash_mode = last.opts.hash_mode
                 \/ last.prev.hash_mode = "None" /\ last.opts.hash_mode = "stat"

\* C7 (pruning correctness): for every file that has a unit in the prior cache
\* and is no longer walked, the report holds no function record, edge or
\* unresolved call of that file's module, cache_units has no entry for its
\* path, and pruned_files is the number of such files.
C7_PruningCorrectness ==
    Ran =>
        /\ last.out.cache.pruned_files = Cardinality(Vanished)
        /\ \A rel \in Vanished :
              /\ rel \notin DOMAIN last.out.cache_units
              /\ \A i \in 1..Len(last.out.functions) :
                    last.out.functions[i].module # module_name(rel)
              /\ \A i \in 1..Len(last.out.edges) :
                    ~FromModule(last.out.edges[i].caller, rel)
              /\ \A i \in 1..Len(last.out.unresolved_calls) :
                    ~FromModule(last.out.unresolved_calls[i].caller, rel)

\* A run after a deletion: one unit of the prior cache is pruned, another is
\* reused, and the prior unit of the vanished file held function records.
C7_PrunedAndReused ==
    /\ Ran
    /\ \E rel \in Vanished : last.prev.cache_units[rel].functions # <<>>
    /\ last.out.cache.pruned_files >= 1
    /\ last.out.cache.reused_files >= 1

\* C8 (self-method correctness): for every call self.m() inside a function of
\* class C of module M, the report has an edge from that function to M.C.m if
\* and only if m is a function lexically defined in the body of C.
C8_SelfMethodCorrectness ==
    Ran => \A rel \in Contributing : \A site \in SitesOf(rel) :
              IsSelfCall(site) =>
                  (HasEdge(site.caller, site.class \o Dot \o site.func.attr)
                      <=> site.func.attr \in site.defined)

\* C9 (cross-module from-import resolution): when a function calls a name that
\* a relative from-import of its file binds, and the report declares the
\* function the import denotes, the report has an edge from the caller to the
\* qualname of that function.
C9_FromImportResolution ==
    Ran => \A rel \in Contributing : \A site \in SitesOf(rel) :
              \A imp \in RelativeImports(rel) :
                  (/\ site.func.node = "Name"
                   /\ site.func.id = imp.local
                   /\ imp.target \in Qualnames)
                      => HasEdge(site.caller, imp.target)

\* C10 (provisional-edge upgrade): no edge of the report keeps a provisional
\* provenance while its callee is the qualname of a declared function.
C10_ProvisionalUpgrade ==
    Ran => \A i \in 1..Len(last.out.edges) :
              last.out.edges[i].provenance \in {"provisional-alias", "provisional-fromimport"}
                  => last.out.edges[i].callee \notin Qualnames

\* The global passes run once more over what the last run left: its function
\* set, its imported candidates and its remaining unresolved list.
SecondPassA == PassA(last.out.imported_candidates, Qualnames)

SecondPassB ==
    PassB(PassBStart, last.out.unresolved_calls, Qualnames,
          InOrder(TopModules(last.out.functions), last.opts.set_order),
          last.opts.ignore_builtin)

\* C11 (idempotence of the global resolver): Pass A and Pass B run a second
\* time over the state the run left append no edge and leave the unresolved
\* list as it is.
C11_PassesIdempotent ==
    Ran => /\ SecondPassA = <<>>
           /\ SecondPassB.edges = <<>>
           /\ SecondPassB.remaining_unresolved = last.out.unresolved_calls

\* A run in which Pass B turned an unresolved entry into an edge and left
\* another entry unresolved.
C11_ResolvedAndRemaining ==
    /\ Ran
    /\ last.out.resolved_cross_module >= 1
    /\ last.out.unresolved_calls # <<>>

\* C12 (the fingerprint of the current mode is stored): for every file the run
\* parsed and aggregated, file_hashes and the hash of its cache unit hold the
\* fingerprint of the run's hash mode.
C12_StoredFingerprintOfMode ==
    Ran => \A rel \in Contributing \ Reused :
              /\ last.out.file_hashes[rel]
                    = compute_hash(last.opts.hash_mode, last.tree[rel])
              /\ last.out.cache_units[rel].hash
                    = compute_hash(last.opts.hash_mode, last.tree[rel])

\* C13 (a fingerprint I/O failure forces a re-parse): a file whose fingerprint
\* computation fails in a run ('0:0' in stat mode, '0' in sha1 mode) is not
\* reused from the cache in that run.
C13_FailureForcesReparse ==
    Ran => \A rel \in Reused :
              compute_hash(last.opts.hash_mode, last.tree[rel])
                  \notin {StatFailure, Sha1Failure}

\* The files that contributed to the last run, in the order in which main()
\* took their records: the reused files in walk order, then the parsed files
\* in the order of to_parse.
ContributionOrder ==
    SelectSeq(last.opts.walk, LAMBDA rel : rel \in Reused)
        \o SelectSeq(last.out.to_parse, LAMBDA rel : rel \in Contributing)

\* The number of edges the first k files of the order contributed.
RECURSIVE EdgesOfFirst(_, _)
EdgesOfFirst(order, k) ==
    IF k = 0 THEN 0
    ELSE EdgesOfFirst(order, k - 1) + Len(last.out.cache_units[order[k]].edges)

\* C14 (edge cap): with CRV_PY_EDGE_CAP = N > 0, no file contributes once the
\* edges of the files before it, reused and parsed, have reached N, and every
\* file that contributes contributes all the functions and edges of its unit.
C14_EdgeCap ==
    (Ran /\ last.opts.edge_cap > 0) =>
        /\ \A k \in 2..Len(ContributionOrder) :
              EdgesOfFirst(ContributionOrder, k - 1) < last.opts.edge_cap
        /\ \A rel \in Contributing :
              /\ Range(last.out.cache_units[rel].functions) \subseteq Range(last.out.functions)
              /\ Range(last.out.cache_units[rel].edges) \subseteq Range(last.out.edges)

\* What Pass B read and wrote in the last run: the unresolved list it found
\* and the edges it appended (no other edge has the provenance of Pass B).
PassBInput == Range(last.out.unresolved_in)

PassBEdges == {e \in Range(last.out.edges) : e.provenance = "static-cross-module"}

CleanName(u) == LStripDots(u.name)

\* The declared qualnames a candidate is a dot-suffix of.
SuffixMatches(cand) == {fq \in Qualnames : EndsWith(fq, Dot \o cand)}

\* The candidate is the declared qualname fq, or is no declared qualname and a
\* dot-suffix of fq alone.
Resolves(cand, fq) ==
    IF cand \in Qualnames THEN fq = cand ELSE SuffixMatches(cand) = {fq}

\* The candidates of an entry: its name and, for a dotted name, the name under
\* every top-level module of the function set.
CandidatesOf(u) ==
    Range(Candidates(CleanName(u),
                     InOrder(TopModules(last.out.functions), last.opts.set_order)))

Resolvable(u) == \E cand \in CandidatesOf(u) : \E fq \in Qualnames : Resolves(cand, fq)

DroppedAsBuiltin(u) == last.opts.ignore_builtin /\ CleanName(u) \in builtin_names

\* C15 (Pass B resolution rule, over candidates): Pass B appends an edge only for an
\* entry one of whose candidates is a declared qualname or a dot-suffix of
\* exactly one declared qualname; an entry that is not dropped as a builtin
\* and has no such candidate stays unresolved, and only such entries stay;
\* every entry ends as one edge, as dropped or as kept.
C15_PassBRule ==
    Ran =>
        /\ \A e \in PassBEdges :
              \E u \in PassBInput :
                  /\ u.caller = e.caller
                  /\ ~DroppedAsBuiltin(u)
                  /\ \E cand \in CandidatesOf(u) : Resolves(cand, e.callee)
        /\ \A u \in PassBInput :
              (~DroppedAsBuiltin(u) /\ ~Resolvable(u))
                  => u \in Range(last.out.unresolved_calls)
        /\ \A u \in Range(last.out.unresolved_calls) :
              u \in PassBInput /\ ~DroppedAsBuiltin(u) /\ ~Resolvable(u)
        /\ Len(last.out.unresolved_in)
              = last.out.resolved_cross_module + last.out.ignored_builtins
                    + Len(last.out.unresolved_calls)

\* C15 (Pass B resolution rule, as claimed): an entry whose name is no declared
\* qualname and is a dot-suffix of two or more declared qualnames stays
\* unresolved and yields no edge.
C15_AmbiguousNameStaysUnresolved ==
    Ran => \A u \in PassBInput :
              (CleanName(u) \notin Qualnames /\ Cardinality(SuffixMatches(CleanName(u))) >= 2)
                  => /\ u \in Range(last.out.unresolved_calls)
                     /\ \A e \in PassBEdges :
                           ~(e.caller = u.caller /\ e.callee \in SuffixMatches(CleanName(u)))

\* A run in which Pass B kept an entry whose simple name is a dot-suffix of
\* two declared qualnames, and appended an edge for another entry.
C15_AmbiguousKeptAndEdgeAppended ==
    /\ Ran
    /\ \E u \in Range(last.out.unresolved_calls) :
          Cardinality(SuffixMatches(CleanName(u))) >= 2
    /\ PassBEdges # {}

\* The qualified name of the scope a function is declared in.
ScopeOf(fn) == Join(Dot, SubSeq(Split(fn, "."), 1, Len(Split(fn, ".")) - 1))

\* The functions the file at rel declares under the simple name id.
DeclaredAs(rel, id) ==
    {q \in Qualnames : FromModule(q, rel) /\ EndsWith(q, Dot \o id)}

\* C16 (scope-preferring disambiguation): when a function calls a simple name
\* that several functions of its file declare, and one of them is declared in
\* the scope that encloses the calling function, the report has an edge from
\* the caller to that one and none to a function of the same name declared in
\* another scope.
C16_ScopePreferred ==
    Ran => \A rel \in Contributing : \A site \in SitesOf(rel) :
              (/\ site.func.node = "Name"
               /\ Cardinality(DeclaredAs(rel, site.func.id)) > 1
               /\ Qualify(ScopeOf(site.caller), site.func.id) \in DeclaredAs(rel, site.func.id))
                  => /\ HasEdge(site.caller, Qualify(ScopeOf(site.caller), site.func.id))
                     /\ \A q \in DeclaredAs(rel, site.func.id) :
                           HasEdge(site.caller, q)
                               => q = Qualify(ScopeOf(site.caller), site.func.id)

\* The report of a run with --workers 1 on the tree, the cache file and the
\* other options of the last run.
Sequential == main(last.tree, last.prev, [last.opts EXCEPT !.workers = 1])

\* The tasks of the last run that raised.
Raised == last.opts.raised \cap Range(last.out.to_parse)

\* The paths to parse that scan_file skips for the given reason.
SkippedFor(reason) ==
    {rel \in Range(last.out.to_parse) : scan_file(rel, last.tree[rel])[2] = reason}

\* What a run with a pool has in common with the report seq of the run with
\* --workers 1.
AgreesWith(seq) ==
    /\ Raised = {} =>
          /\ Range(last.out.functions) = Range(seq.functions)
          /\ Range(last.out.edges) = Range(seq.edges)
          /\ Range(last.out.unresolved_calls) = Range(seq.unresolved_calls)
          /\ last.out.file_hashes = seq.file_hashes
          /\ last.out.cache_units = seq.cache_units
    /\ DOMAIN last.out.file_hashes = DOMAIN seq.file_hashes \ Raised
    /\ DOMAIN last.out.cache_units = DOMAIN seq.cache_units \ Raised
    /\ \A rel \in DOMAIN last.out.file_hashes :
          /\ last.out.file_hashes[rel] = seq.file_hashes[rel]
          /\ last.out.cache_units[rel] = seq.cache_units[rel]
    /\ last.out.skipped.parse = Cardinality(SkippedFor("parse") \cup Raised)
    /\ last.out.skipped.size = Cardinality(SkippedFor("size") \ Raised)

\* C17 (worker-pool independence): a run with --workers 2 and no edge cap, in
\* whatever order its tasks complete, reports the same sets of functions,
\* edges and unresolved calls and the same file_hashes and cache units as a
\* run with --workers 1 on the same tree when no task raises; a task that
\* raises counts as one parse skip, and every other file keeps the fingerprint
\* and the cache unit the run with --workers 1 gives it.
C17_WorkerPoolIndependence ==
    (Ran /\ last.opts.workers > 1 /\ last.opts.edge_cap = 0) =>
        \A seq \in {Sequential} : AgreesWith(seq)

\* A run with a pool whose tasks completed in another order than the paths
\* were submitted, none raising: its function records come in another order
\* than in the run with --workers 1.
C17_CompletedOutOfOrder ==
    /\ Ran
    /\ last.opts.workers > 1
    /\ last.opts.edge_cap = 0
    /\ Raised = {}
    /\ Len(last.out.to_parse) >= 2
    /\ InOrder(Range(last.out.to_parse), last.opts.completion) # last.out.to_parse
    /\ last.out.functions # Sequential.functions

====
